---- MODULE Spec2Model ----
(***************************************************************************)
(* Model of the streaming chat session client of MedAi: the useChat        *)
(* composable, its sendMessage and clearMessages operations and the        *)
(* transport events a send in flight waits for.                            *)
(*                                                                         *)
(* Strings are sequences of one-character strings, so that trim() is a     *)
(* real computation.  The two fixed literals of the code (the system       *)
(* preamble and the fallback text) are one-symbol strings.                 *)
(* A decoded chunk is the sequence of lines chunk.split('\n') yields; a    *)
(* line is whether it starts with "data: " and what follows the prefix.    *)
(***************************************************************************)
EXTENDS Integers, Sequences, FiniteSets, TLC

\* ------------------------------------------------------------------ bounds
MaxSends == 2       \* accepted sends in one behaviour
MaxStreamLines == 2 \* lines one response body delivers, over all its chunks

\* ------------------------------------------------------------------ inputs
Whitespace == {" "}
Texts == { <<>>, <<" ">>, <<"a">>, <<" ", "b", " ">> }
Tokens == { <<"x">>, <<"y">> }

\* ------------------------------------------------------------- literals
API_URL == "/v1/chat/stream"
SystemPrompt == <<"Voce e a MedIA ...">>
Fallback == <<"Desculpe, ocorreu um erro. Tente novamente.">>

\* ------------------------------------------------------- String.trim()
RECURSIVE TrimStart(_)
TrimStart(s) ==
  IF s # <<>> /\ Head(s) \in Whitespace THEN TrimStart(Tail(s)) ELSE s

RECURSIVE TrimEnd(_)
TrimEnd(s) ==
  IF s # <<>> /\ s[Len(s)] \in Whitespace
  THEN TrimEnd(SubSeq(s, 1, Len(s) - 1)) ELSE s

Trim(s) == TrimEnd(TrimStart(s))

\* ------------------------------------------------ the lines of a chunk
\* What follows "data: " (after slice(6).trim()): the literal [DONE], a text
\* JSON.parse rejects, or the text of a JSON value.
Done == [kind |-> "done"]
NotJson == [kind |-> "text"]
JNull == [kind |-> "json", isNull |-> TRUE, hasContent |-> FALSE, content |-> <<>>]
JNoContent == [kind |-> "json", isNull |-> FALSE, hasContent |-> FALSE, content |-> <<>>]
JContent(c) == [kind |-> "json", isNull |-> FALSE, hasContent |-> TRUE, content |-> c]

Payloads == {Done, NotJson, JNull, JNoContent, JContent(<<>>)}
              \cup {JContent(t) : t \in Tokens}

DataLine(p) == [prefix |-> TRUE, payload |-> p]
OtherLine(p) == [prefix |-> FALSE, payload |-> p]

Lines == {DataLine(p) : p \in Payloads}
           \cup {OtherLine(Done), OtherLine(JContent(<<"x">>))}
PlainLines == {DataLine(JContent(<<"x">>)), DataLine(Done), DataLine(NotJson)}

\* The lines the response to the n-th request may carry: every kind of line
\* in the first response, the three common ones afterwards.
LinesOf(n) == IF n = 1 THEN Lines ELSE PlainLines

\* A decoded chunk of the n-th response: split('\n') yields at least one line.
ChunksOf(n, maxLen) == UNION {[1..k -> LinesOf(n)] : k \in 1..maxLen}

\* ------------------------------------------------------------------ state
VARIABLES
  messages,      \* messages.value: sequence of [id, role, content]
  isLoading,     \* isLoading.value
  pc,            \* where the one sendMessage call in flight is suspended
  assistantId,   \* assistantMsg.id of the send in flight (or of the last one)
  nextId,        \* ids handed out so far (createMessage ids are unique)
  numRequests,   \* fetch() calls made
  lastRequest,   \* body of the last fetch() call
  linesRead,     \* lines the reader has delivered in this response
  lastOp,        \* the operation or transport event that ran last
  cleared,       \* clearMessages() ran since the last send was accepted
  expected,      \* tokens the processed lines of this response carried, in
                 \* order, while its assistant message is in the sequence
  doneAt         \* while reading: Len(expected) when "data: [DONE]" was
                 \* first processed, or -1

vars == <<messages, isLoading, pc, assistantId, nextId, numRequests,
          lastRequest, linesRead, lastOp, cleared, expected, doneAt>>

Op(name) == [op |-> name, text |-> <<>>]
SendOp(text) == [op |-> "sendMessage", text |-> text]

Init ==
  /\ messages = <<>>
  /\ isLoading = FALSE
  /\ pc = "idle"
  /\ assistantId = 0
  /\ nextId = 1
  /\ numRequests = 0
  /\ lastRequest = [url |-> API_URL, messages |-> <<>>]
  /\ linesRead = 0
  /\ lastOp = Op("init")
  /\ cleared = FALSE
  /\ expected = <<>>
  /\ doneAt = -1

\* ------------------------------------------------------------ helpers
\* createMessage: the id is unique (time + random), the timestamp is not
\* read by any operation of the session and is left out.
createMessage(id, role, content) ==
  [id |-> id, role |-> role, content |-> content]

\* messages.value.findIndex(m => m.id === id); 0 stands for JavaScript's -1,
\* where messages.value[idx] is undefined.
findIndex(msgs, id) ==
  IF \E i \in 1..Len(msgs) : msgs[i].id = id
  THEN CHOOSE i \in 1..Len(msgs) :
         /\ msgs[i].id = id
         /\ \A j \in 1..(i - 1) : msgs[j].id # id
  ELSE 0

\* if (msg) msg.content += token
AppendTokenConcatFront(msgs, id, token) ==
  LET idx == findIndex(msgs, id) IN
  IF idx = 0 THEN msgs
  ELSE [msgs EXCEPT ![idx].content = token \o @]

AppendToken(msgs, id, token) ==
  LET idx == findIndex(msgs, id) IN
  IF idx = 0 THEN msgs
  ELSE [msgs EXCEPT ![idx].content = @ \o token]

\* catch: if (msg) msg.content = 'Desculpe, ...'
SetFallbackOrPush(msgs, id) ==
  LET idx == findIndex(msgs, id) IN
  IF idx = 0 THEN Append(msgs, createMessage(id, "assistant", Fallback))
  ELSE [msgs EXCEPT ![idx].content = Fallback]

SetFallbackSuffix(msgs, id) ==
  LET idx == findIndex(msgs, id) IN
  IF idx = 0 THEN msgs
  ELSE [msgs EXCEPT ![idx].content = @ \o Fallback]

SetFallback(msgs, id) ==
  LET idx == findIndex(msgs, id) IN
  IF idx = 0 THEN msgs
  ELSE [msgs EXCEPT ![idx].content = Fallback]

\* .filter(m => m.content).map(m => ({ role: m.role, content: m.content }))
RECURSIVE FilterMap(_)
FilterMap(msgs) ==
  IF msgs = <<>> THEN <<>>
  ELSE LET m == Head(msgs) IN
       IF m.content # <<>>
       THEN <<[role |-> m.role, content |-> m.content]>> \o FilterMap(Tail(msgs))
       ELSE FilterMap(Tail(msgs))

\* The messages array of the request body, built from messages.value as it
\* is when fetch() is called (after the two pushes).
RequestMessages(msgs, text) ==
  <<[role |-> "system", content |-> SystemPrompt]>>
    \o FilterMap(msgs)
    \o <<[role |-> "user", content |-> text]>>

\* JSON.parse(data) and parsed.choices?.[0]?.delta?.content inside the inner
\* try/catch: a text that is not JSON throws in JSON.parse, null throws at
\* parsed.choices; both are swallowed.  The result is the token, <<>> when
\* there is none (undefined and '' are both falsy).
TokenOf(data) ==
  IF data.kind # "json" THEN <<>>
  ELSE IF data.isNull THEN <<>>
  ELSE IF ~data.hasContent THEN <<>>
  ELSE data.content

\* for (const line of lines) { ... } over one chunk.
RECURSIVE ProcessLinesStopOnBadJson(_, _, _)
ProcessLinesStopOnBadJson(lines, msgs, id) ==
  IF lines = <<>> THEN msgs
  ELSE LET line == Head(lines) IN
       IF ~line.prefix THEN ProcessLinesStopOnBadJson(Tail(lines), msgs, id)
       ELSE IF line.payload = Done THEN msgs
       ELSE IF line.payload.kind # "json" THEN msgs
       ELSE IF TokenOf(line.payload) # <<>>
       THEN ProcessLinesStopOnBadJson(Tail(lines),
                AppendToken(msgs, id, TokenOf(line.payload)), id)
       ELSE ProcessLinesStopOnBadJson(Tail(lines), msgs, id)

RECURSIVE ProcessLines(_, _, _)
ProcessLines(lines, msgs, id) ==
  IF lines = <<>> THEN msgs
  ELSE LET line == Head(lines) IN
       IF ~line.prefix THEN ProcessLines(Tail(lines), msgs, id)
       ELSE IF line.payload = Done THEN msgs
       ELSE IF TokenOf(line.payload) # <<>>
       THEN ProcessLines(Tail(lines),
                AppendToken(msgs, id, TokenOf(line.payload)), id)
       ELSE ProcessLines(Tail(lines), msgs, id)

\* if (!text.trim() || isLoading.value) return
RejectsIgnoringLoading(text, loading) == Trim(text) = <<>>
RejectsWithoutTrim(text, loading) == text = <<>> \/ loading
Rejects(text, loading) == Trim(text) = <<>> \/ loading

\* The two pushes of an accepted send.
PushBothPlaceholderFirst(msgs, id, text) ==
  Append(Append(msgs, createMessage(id + 1, "assistant", <<>>)),
         createMessage(id, "user", text))

PushBoth(msgs, id, text) ==
  Append(Append(msgs, createMessage(id, "user", text)),
         createMessage(id + 1, "assistant", <<>>))

\* -------------------------------------------- history kept for the claims
\* The lines of a chunk the loop processes: those before the first
\* "data: [DONE]" line.
IsDoneLine(line) == line.prefix /\ line.payload = Done

HasDone(chunk) == \E i \in 1..Len(chunk) : IsDoneLine(chunk[i])

Processed(chunk) ==
  IF HasDone(chunk)
  THEN SubSeq(chunk, 1,
         (CHOOSE i \in 1..Len(chunk) :
            /\ IsDoneLine(chunk[i])
            /\ \A j \in 1..(i - 1) : ~IsDoneLine(chunk[j])) - 1)
  ELSE chunk

Carries(line) ==
  /\ line.prefix
  /\ line.payload.kind = "json"
  /\ ~line.payload.isNull
  /\ line.payload.hasContent
  /\ line.payload.content # <<>>

RECURSIVE Concat(_)
Concat(ls) ==
  IF ls = <<>> THEN <<>> ELSE Head(ls).payload.content \o Concat(Tail(ls))

ExpectedTokens(chunk) == Concat(SelectSeq(Processed(chunk), Carries))

\* ---------------------------------------------------------------- actions
\* sendMessage(text), up to its first await (the fetch call).
SendMessage(text) ==
  /\ lastOp' = SendOp(text)
  /\ IF Rejects(text, isLoading)
     THEN UNCHANGED <<messages, isLoading, pc, assistantId, nextId,
                      numRequests, lastRequest, linesRead, cleared,
                      expected, doneAt>>
     ELSE /\ numRequests < MaxSends
          /\ messages' = PushBoth(messages, nextId, text)
          /\ assistantId' = nextId + 1
          /\ nextId' = nextId + 2
          /\ isLoading' = TRUE
          /\ lastRequest' = [url |-> API_URL,
                             messages |-> RequestMessages(messages', text)]
          /\ numRequests' = numRequests + 1
          /\ pc' = "fetch"
          /\ linesRead' = 0
          /\ cleared' = FALSE
          /\ expected' = <<>>
          /\ doneAt' = -1

\* catch (error) { ... } finally { isLoading.value = false }
CatchKeepsLoading(name) ==
  /\ lastOp' = Op(name)
  /\ messages' = SetFallback(messages, assistantId)
  /\ pc' = "idle"
  /\ linesRead' = 0
  /\ expected' = <<>>
  /\ doneAt' = -1
  /\ UNCHANGED <<isLoading, assistantId, nextId, numRequests, lastRequest,
                 cleared>>

Catch(name) ==
  /\ lastOp' = Op(name)
  /\ messages' = SetFallback(messages, assistantId)
  /\ isLoading' = FALSE
  /\ pc' = "idle"
  /\ linesRead' = 0
  /\ expected' = <<>>
  /\ doneAt' = -1
  /\ UNCHANGED <<assistantId, nextId, numRequests, lastRequest, cleared>>

\* await fetch(...) rejects: network failure.
FetchRejected ==
  /\ pc = "fetch"
  /\ Catch("fetchRejected")

\* await fetch(...) resolves; !response.ok and !response.body throw.
FetchResolved(ok, hasBody) ==
  /\ pc = "fetch"
  /\ IF ~ok THEN Catch("statusNotOk")
     ELSE IF ~hasBody THEN Catch("noBody")
     ELSE /\ lastOp' = Op("headers")
          /\ pc' = "read"
          /\ UNCHANGED <<messages, isLoading, assistantId, nextId,
                         numRequests, lastRequest, linesRead, cleared,
                         expected, doneAt>>

\* await reader.read() yields { done: false, value }: one pass of the loop.
ReadChunkDoneEndsStream(chunk) ==
  /\ pc = "read"
  /\ Len(chunk) <= MaxStreamLines - linesRead
  /\ lastOp' = Op("readChunk")
  /\ messages' = ProcessLines(chunk, messages, assistantId)
  /\ linesRead' = linesRead + Len(chunk)
  /\ expected' = IF cleared THEN <<>> ELSE expected \o ExpectedTokens(chunk)
  /\ doneAt' = IF doneAt = -1 /\ HasDone(chunk) THEN Len(expected') ELSE doneAt
  /\ IF HasDone(chunk)
     THEN isLoading' = FALSE /\ pc' = "idle"
     ELSE UNCHANGED <<isLoading, pc>>
  /\ UNCHANGED <<assistantId, nextId, numRequests, lastRequest, cleared>>

ReadChunk(chunk) ==
  /\ pc = "read"
  /\ Len(chunk) <= MaxStreamLines - linesRead
  /\ lastOp' = Op("readChunk")
  /\ messages' = ProcessLines(chunk, messages, assistantId)
  /\ linesRead' = linesRead + Len(chunk)
  /\ expected' = IF cleared THEN <<>> ELSE expected \o ExpectedTokens(chunk)
  /\ doneAt' = IF doneAt = -1 /\ HasDone(chunk) THEN Len(expected') ELSE doneAt
  /\ UNCHANGED <<isLoading, pc, assistantId, nextId, numRequests,
                 lastRequest, cleared>>

\* await reader.read() yields { done: true }: break, then finally.
ReadDone ==
  /\ pc = "read"
  /\ lastOp' = Op("readDone")
  /\ isLoading' = FALSE
  /\ pc' = "idle"
  /\ linesRead' = 0
  /\ doneAt' = -1
  /\ UNCHANGED <<messages, assistantId, nextId, numRequests, lastRequest,
                 cleared, expected>>

\* await reader.read() rejects: the connection broke mid-stream.
ReadError ==
  /\ pc = "read"
  /\ Catch("readError")

\* clearMessages()
ClearMessagesAndLoading ==
  /\ lastOp' = Op("clearMessages")
  /\ messages' = <<>>
  /\ isLoading' = FALSE
  /\ cleared' = TRUE
  /\ expected' = <<>>
  /\ UNCHANGED <<pc, assistantId, nextId, numRequests, lastRequest,
                 linesRead, doneAt>>

ClearMessages ==
  /\ lastOp' = Op("clearMessages")
  /\ messages' = <<>>
  /\ cleared' = TRUE
  /\ expected' = <<>>
  /\ UNCHANGED <<isLoading, pc, assistantId, nextId, numRequests,
                 lastRequest, linesRead, doneAt>>

\* The clear button of ChatView: disabled while the sequence is empty,
\* whatever isLoading is.
ClearButtonEnabled == Len(messages) # 0

\* handleClear(): clearMessages() runs only if the user confirms.
HandleClear(confirmed) ==
  /\ ClearButtonEnabled
  /\ IF confirmed THEN ClearMessages ELSE UNCHANGED vars

Transport ==
  \/ FetchRejected
  \/ \E ok \in BOOLEAN, hasBody \in BOOLEAN : FetchResolved(ok, hasBody)
  \/ \E chunk \in ChunksOf(numRequests, MaxStreamLines - linesRead) : ReadChunk(chunk)
  \/ ReadDone
  \/ ReadError

Next ==
  \/ \E text \in Texts : SendMessage(text)
  \/ ClearMessages
  \/ \E confirmed \in BOOLEAN : HandleClear(confirmed)
  \/ FetchRejected
  \/ \E ok \in BOOLEAN, hasBody \in BOOLEAN : FetchResolved(ok, hasBody)
  \/ \E chunk \in ChunksOf(numRequests, MaxStreamLines - linesRead) : ReadChunk(chunk)
  \/ ReadDone
  \/ ReadError

Spec == Init /\ [][Next]_vars

\* The transport eventually answers every request and eventually ends or
\* breaks every response body.
FairSpec == Spec /\ WF_vars(Transport)

TypeOK ==
  /\ isLoading \in BOOLEAN
  /\ pc \in {"idle", "fetch", "read"}
  /\ numRequests \in 0..MaxSends
  /\ linesRead \in 0..MaxStreamLines
  /\ Len(messages) <= 2 * MaxSends

\* ------------------------------------------------------------------ claims
FailOps == {"fetchRejected", "statusNotOk", "noBody", "readError"}

\* Position of the assistant message of the send in flight, 0 when it is
\* no longer in the sequence.
AssistantIdx == findIndex(messages, assistantId)

\* The step is a sendMessage(text) call the guard lets through.
AcceptedSend(text) ==
  /\ lastOp' = SendOp(text)
  /\ ~isLoading
  /\ Trim(text) # <<>>

\* The step is a failure of the send in flight.
FailureStep == lastOp'.op \in FailOps /\ pc # "idle"

\* C1: a sendMessage(text) call made while isLoading is true, for any text
\* and at either suspension point of the send in flight, appends no message,
\* issues no request and leaves the flag (and the send in flight) as it is.
C1_SendWhileLoadingIsNoOp ==
  [][(lastOp'.op = "sendMessage" /\ isLoading) =>
       /\ messages' = messages
       /\ numRequests' = numRequests
       /\ lastRequest' = lastRequest
       /\ isLoading' = isLoading
       /\ pc' = pc
       /\ assistantId' = assistantId]_vars

\* A non-blank text was sent between two stream reads and the send in flight
\* is still reading.
C1_Witness ==
  /\ lastOp.op = "sendMessage"
  /\ Trim(lastOp.text) # <<>>
  /\ isLoading
  /\ pc = "read"
  /\ linesRead > 0

\* C2: an accepted send appends exactly a user message and then an assistant
\* message with empty content, keeps the earlier messages as they were, sets
\* isLoading and is then suspended at the fetch call, whose request is the
\* one just issued.
C2_AcceptedSendAppendsTwo ==
  [][\A text \in Texts : AcceptedSend(text) =>
       LET n == Len(messages) IN
       /\ Len(messages') = n + 2
       /\ SubSeq(messages', 1, n) = messages
       /\ messages'[n + 1].role = "user"
       /\ messages'[n + 2].role = "assistant"
       /\ messages'[n + 2].content = <<>>
       /\ messages'[n + 1].id # messages'[n + 2].id
       /\ isLoading' = TRUE
       /\ pc' = "fetch"
       /\ numRequests' = numRequests + 1]_vars

\* A second send was accepted after an earlier exchange and waits for the
\* response headers.
C2_Witness ==
  /\ lastOp.op = "sendMessage"
  /\ pc = "fetch"
  /\ Len(messages) = 4
  /\ messages[3].role = "user"
  /\ messages[4] = createMessage(assistantId, "assistant", <<>>)

\* C3: sendMessage with an empty or whitespace-only text changes nothing, in
\* every session state: the sequence, the flag, the requests sent and the
\* send in flight are as before.
C3_BlankSendIsNoOp ==
  [][(lastOp'.op = "sendMessage" /\ Trim(lastOp'.text) = <<>>) =>
       /\ messages' = messages
       /\ isLoading' = isLoading
       /\ numRequests' = numRequests
       /\ lastRequest' = lastRequest
       /\ pc' = pc]_vars

\* A whitespace-only text was sent to an idle session that holds messages.
C3_Witness ==
  /\ lastOp.op = "sendMessage"
  /\ lastOp.text # <<>>
  /\ Trim(lastOp.text) = <<>>
  /\ ~isLoading
  /\ messages # <<>>

\* C4 as claimed: whenever a send has failed, its assistant message is in
\* the sequence with exactly the fallback text and isLoading is false.
C4_FailureAlwaysWritesFallback ==
  lastOp.op \in FailOps =>
    /\ ~isLoading
    /\ \E i \in 1..Len(messages) :
         /\ messages[i].id = assistantId
         /\ messages[i].content = Fallback

\* C4 as amended: when a send fails, its assistant message, if
\* clearMessages() has not removed it meanwhile, gets exactly the fallback
\* text in place of whatever it held and no other message changes; if it was
\* removed, nothing is written.  In both cases isLoading becomes false, the
\* call returns and no further request is issued.
C4_FailureWritesFallbackUnlessCleared ==
  [][FailureStep =>
       /\ isLoading' = FALSE
       /\ pc' = "idle"
       /\ numRequests' = numRequests
       /\ lastRequest' = lastRequest
       /\ Len(messages') = Len(messages)
       /\ \A i \in 1..Len(messages) :
            IF messages[i].id = assistantId
            THEN messages'[i] = [messages[i] EXCEPT !.content = Fallback]
            ELSE messages'[i] = messages[i]
       /\ (~cleared => AssistantIdx # 0)
       /\ (cleared => messages' = <<>>)]_vars

\* The stream broke and the assistant message of that send holds the
\* fallback text.
C4_Witness ==
  /\ lastOp.op = "readError"
  /\ ~cleared
  /\ ~isLoading
  /\ AssistantIdx = Len(messages)
  /\ messages[AssistantIdx].content = Fallback

\* C5: isLoading is true exactly while a send is in flight; under a transport
\* that eventually answers, ends or breaks, every send returns the session to
\* idle; an idle session accepts the next non-blank send; the flag is raised
\* only by an accepted send and lowered only by the end or the failure of
\* the stream.
C5_LoadingLifecycle ==
  /\ [](isLoading <=> pc # "idle")
  /\ (isLoading ~> ~isLoading)
  /\ [][\A text \in Texts : AcceptedSend(text) => isLoading']_vars
  /\ [][(isLoading' # isLoading) =>
          IF isLoading'
          THEN lastOp'.op = "sendMessage"
          ELSE lastOp'.op \in FailOps \cup {"readDone"}]_vars

\* A send was accepted after an earlier send had returned the session to idle.
C5_Witness ==
  /\ numRequests = 2
  /\ lastOp.op = "sendMessage"
  /\ isLoading
  /\ pc = "fetch"

\* C6: clearMessages() leaves the sequence empty and isLoading, like the
\* send in flight, as it was.
C6_ClearEmptiesOnly ==
  [][(lastOp'.op = "clearMessages") =>
       /\ messages' = <<>>
       /\ isLoading' = isLoading
       /\ pc' = pc
       /\ numRequests' = numRequests]_vars

\* clearMessages() ran while a send was reading its stream.
C6_Witness ==
  /\ lastOp.op = "clearMessages"
  /\ messages = <<>>
  /\ isLoading
  /\ pc = "read"
  /\ linesRead > 0

\* C7 as claimed: the request of an accepted send carries the system
\* preamble, then the messages that were in the sequence before the send
\* (non-empty content only, as {role, content}), then the new user text, and
\* nothing else.
C7_RequestCarriesUserTextOnce ==
  [][\A text \in Texts : AcceptedSend(text) =>
       lastRequest'.messages =
         <<[role |-> "system", content |-> SystemPrompt]>>
           \o FilterMap(messages)
           \o <<[role |-> "user", content |-> text]>>]_vars

\* C8 as claimed: the user message an accepted send appends holds the
\* trimmed text.
C8_UserMessageIsTrimmed ==
  [][\A text \in Texts : AcceptedSend(text) =>
       messages'[Len(messages) + 1].content = Trim(text)]_vars

\* C9: when the stream has ended normally and the sequence was not cleared,
\* the assistant message holds the tokens of the processed "data: " lines
\* whose payload is JSON with a non-empty content, in arrival order, and
\* nothing from any other line.
C9_ContentIsConcatenation ==
  (lastOp.op = "readDone" /\ ~cleared) =>
    /\ AssistantIdx # 0
    /\ messages[AssistantIdx].content = expected

\* A stream that carried two different tokens ended normally.
C9_Witness ==
  /\ lastOp.op = "readDone"
  /\ ~cleared
  /\ AssistantIdx # 0
  /\ messages[AssistantIdx].content = <<"y", "x">>

C11_ClearedSendWritesNowhere ==
  /\ [](cleared => (messages = <<>> /\ (pc # "idle" => isLoading)))
  /\ [][(cleared /\ pc # "idle" /\ lastOp'.op = "sendMessage") =>
          /\ messages' = <<>>
          /\ numRequests' = numRequests
          /\ isLoading']_vars
  /\ [][(cleared /\ pc # "idle" /\ ~isLoading') =>
          lastOp'.op \in FailOps \cup {"readDone"}]_vars
  /\ [](pc # "idle" /\ ~cleared => ClearButtonEnabled)

\* The stream of a send broke after clearMessages() had run during it: the
\* fallback text went nowhere and the session is idle again.
C11_Witness ==
  /\ cleared
  /\ lastOp.op = "readError"
  /\ messages = <<>>
  /\ ~isLoading
  /\ pc = "idle"

====
